---- MODULE Spec2Model ----
(***************************************************************************)
(* ryaml: the Python front end (py-src/ryaml) of a natively compiled YAML  *)
(* engine.  The model covers load / load_all / dump (__init__.py), the     *)
(* RSafeLoader constructor (compat/__init__.py) and the exception classes  *)
(* (error.py) in both of their shapes (pyyaml importable or not).          *)
(*                                                                         *)
(* Representation.                                                         *)
(*   - YAML content is a sequence of code points (text) or of byte values  *)
(*     (bytes); decode / encode are UTF-8, computed.                       *)
(*   - A Python message string is a sequence of atoms (TLA+ strings); the  *)
(*     atom NL is the newline, so "\n".join is computed by concatenation.  *)
(*   - An optional value is a sequence of length at most one:              *)
(*     None == << >>, Some(x) == << x >>.                                  *)
(***************************************************************************)
EXTENDS Integers, Sequences, FiniteSets, TLC

VARIABLES shape, pc, op, arg, text, engineCalls, outcome, sig, written

vars == << shape, pc, op, arg, text, engineCalls, outcome, sig, written >>

\* Longest byte string / text enumerated as the content of a source.
MaxLen == 2

None == << >>
Some(x) == << x >>
NL == "\n"

(***************************************************************************)
(* Content: bytes, text, UTF-8.                                            *)
(***************************************************************************)
\* 'a', '[', the two bytes of U+00E9, and a byte that never occurs in UTF-8.
ByteAlphabet == {97, 91, 195, 169, 255}
\* 'a', '[', U+00E9
TextAlphabet == {97, 91, 233}

SeqsUpTo(S, n) == UNION {[1..k -> S] : k \in 0..n}

\* "a\n---\na": two documents.
TwoDocsText == << 97, 10, 45, 45, 45, 10, 97 >>

ByteStrings == SeqsUpTo(ByteAlphabet, MaxLen) \cup {TwoDocsText}
Texts == SeqsUpTo(TextAlphabet, MaxLen) \cup {TwoDocsText}

\* bytes.decode("utf8") (strict): the decoded text, or the index (0-based)
\* of the first byte that cannot be decoded.  One- and two-byte sequences;
\* every other lead byte of ByteAlphabet is invalid in UTF-8.
RECURSIVE DecodeFrom(_, _, _)
DecodeFrom(b, i, acc) ==
    IF i > Len(b) THEN [ok |-> TRUE, text |-> acc, position |-> 0]
    ELSE IF b[i] < 128 THEN DecodeFrom(b, i + 1, Append(acc, b[i]))
    ELSE IF b[i] >= 194 /\ b[i] <= 223 /\ i + 1 <= Len(b)
            /\ b[i + 1] >= 128 /\ b[i + 1] <= 191
         THEN DecodeFrom(b, i + 2, Append(acc, (b[i] - 192) * 64 + (b[i + 1] - 128)))
    ELSE [ok |-> FALSE, text |-> << >>, position |-> i - 1]

decode(b) == DecodeFrom(b, 1, << >>)

\* str.encode('utf8') for code points below U+0800.
RECURSIVE encode(_)
encode(t) ==
    IF t = << >> THEN << >>
    ELSE (IF Head(t) < 128 THEN << Head(t) >>
          ELSE << 192 + (Head(t) \div 64), 128 + (Head(t) % 64) >>) \o encode(Tail(t))

(***************************************************************************)
(* error.py: the exception classes.                                        *)
(***************************************************************************)
\* _HAS_YAML, decided once at import: "bridged" (pyyaml importable) or
\* "standalone".
Shapes == {"bridged", "standalone"}

MarkableKinds == {"ScannerError", "ParserError", "ComposerError", "ConstructorError"}
FlatKinds == {"EmitterError", "SerializerError", "RepresenterError"}
Kinds == MarkableKinds \cup FlatKinds \cup {"ReaderError"}

PyCounterpart(k) == "yaml." \o k

\* The bases each class statement names: the bridged branch (if _HAS_YAML)
\* or the standalone branch (else).
BasesDropBridgedBase(sh, c) ==
    IF c \in MarkableKinds
    THEN {"_MarkedErrorMixin", "InvalidYamlError"}
         \cup (IF sh = "bridged" THEN {PyCounterpart(c)} ELSE {})
    ELSE IF c \in FlatKinds \cup {"ReaderError"}
    THEN IF sh = "bridged" THEN {PyCounterpart(c)} ELSE {"InvalidYamlError"}
    ELSE {}

Bases(sh, c) ==
    IF c \in MarkableKinds
    THEN {"_MarkedErrorMixin", "InvalidYamlError"}
         \cup (IF sh = "bridged" THEN {PyCounterpart(c)} ELSE {})
    ELSE IF c \in FlatKinds \cup {"ReaderError"}
    THEN {"InvalidYamlError"}
         \cup (IF sh = "bridged" THEN {PyCounterpart(c)} ELSE {})
    ELSE {}

\* The classes error.py imports, and the built-in exceptions load raises.
ImportedBases(c) ==
    IF c \in {PyCounterpart(k) : k \in MarkableKinds} THEN {"yaml.MarkedYAMLError"}
    ELSE IF c \in {PyCounterpart(k) : k \in FlatKinds \cup {"ReaderError"}}
         \cup {"yaml.MarkedYAMLError"} THEN {"yaml.YAMLError"}
    ELSE IF c \in {"yaml.YAMLError", "InvalidYamlError", "TypeError",
                   "AttributeError", "ValueError"} THEN {"Exception"}
    ELSE IF c = "UnicodeDecodeError" THEN {"ValueError"}
    ELSE {}

DirectBases(sh, c) == IF c \in Kinds THEN Bases(sh, c) ELSE ImportedBases(c)

\* issubclass(c, d): d is c or an ancestor of c (the hierarchy is 5 deep).
RECURSIVE Ancestors(_, _, _)
Ancestors(sh, cs, n) ==
    IF n = 0 THEN cs
    ELSE Ancestors(sh, cs \cup UNION {DirectBases(sh, c) : c \in cs}, n - 1)

issubclass(sh, c, d) == d \in Ancestors(sh, {c}, 5)

\* Marks, as the engine attaches them.
Marks == {[name |-> "f", line |-> 0, column |-> 0, index |-> 0],
          [name |-> "f", line |-> 1, column |-> 2, index |-> 5]}

\* "\n".join(parts)
RECURSIVE Join(_)
Join(parts) ==
    IF parts = << >> THEN << >>
    ELSE IF Len(parts) = 1 THEN parts[1]
    ELSE parts[1] \o << NL >> \o Join(Tail(parts))

NoAttrs == << >>

\* _MarkedErrorMixin.__init__, then InvalidYamlError.__init__(message) by
\* super().  The arguments are optional values.
MarkedInitNoRemap(cls, context, context_mark, problem, problem_mark, note) ==
    [cls |-> cls,
     args |-> << Join(context \o problem) >>,
     attrs |-> [context |-> context, context_mark |-> context_mark,
                problem |-> problem, problem_mark |-> problem_mark,
                note |-> note]]

MarkedErrorInit(cls, context, context_mark, problem, problem_mark, note) ==
    LET remap == context # None /\ context_mark = None /\ problem = None
        ctx == IF remap THEN None ELSE context
        prb == IF remap THEN context ELSE problem
        \* parts: str(context) if present, then str(problem) if present
        parts == ctx \o prb
    IN  [cls |-> cls,
         args |-> << Join(parts) >>,
         attrs |-> [context |-> ctx, context_mark |-> context_mark,
                    problem |-> prb, problem_mark |-> problem_mark,
                    note |-> note]]

\* EmitterError / SerializerError / RepresenterError: no __init__ of their
\* own; the message lands in args.
FlatErrorInit(cls, message) ==
    [cls |-> cls, args |-> << message >>, attrs |-> NoAttrs]

\* ReaderError(*args).  Bridged: one str argument sets the five fields;
\* otherwise the imported ReaderError.__init__(name, position, character,
\* encoding, reason).  Standalone: class ReaderError(InvalidYamlError): pass.
ReaderErrorInit(sh, args) ==
    IF sh = "bridged"
    THEN IF Len(args) = 1
         THEN [cls |-> "ReaderError", args |-> args,
               attrs |-> [name |-> None, position |-> None, character |-> None,
                          encoding |-> None, reason |-> Some(args[1])]]
         ELSE [cls |-> "ReaderError", args |-> args,
               attrs |-> [name |-> Some(args[1]), position |-> Some(args[2]),
                          character |-> Some(args[3]), encoding |-> Some(args[4]),
                          reason |-> Some(args[5])]]
    ELSE [cls |-> "ReaderError", args |-> args, attrs |-> NoAttrs]

\* str(e).  A bridged markable class inherits __str__ from the imported
\* MarkedYAMLError (it precedes BaseException in the method resolution
\* order; neither the mixin nor InvalidYamlError defines __str__), which
\* renders context, the context mark, problem, the problem mark and note,
\* one per line.  Elsewhere str(e) is BaseException's: the one element of
\* args, or the repr of args when there are several.
MarkStr(m) == << "mark", m.name >>

MarkedYAMLErrorStr(a) ==
    LET showContextMark ==
            /\ a.context_mark # None
            /\ \/ a.problem = None
               \/ a.problem_mark = None
               \/ a.context_mark[1].name # a.problem_mark[1].name
               \/ a.context_mark[1].line # a.problem_mark[1].line
               \/ a.context_mark[1].column # a.problem_mark[1].column
    IN  Join(a.context
             \o (IF showContextMark THEN << MarkStr(a.context_mark[1]) >> ELSE << >>)
             \o a.problem
             \o (IF a.problem_mark # None THEN << MarkStr(a.problem_mark[1]) >> ELSE << >>)
             \o a.note)

str(sh, e) ==
    IF e.cls \in MarkableKinds /\ issubclass(sh, e.cls, "yaml.MarkedYAMLError")
    THEN MarkedYAMLErrorStr(e.attrs)
    ELSE IF Len(e.args) = 1 THEN e.args[1] ELSE << "repr(args)" >>

(***************************************************************************)
(* The engine (ryaml._ryaml, native) and its failure signals.              *)
(***************************************************************************)
Simple(message) ==
    [variant |-> "Simple", message |-> message, context |-> None,
     context_mark |-> None, problem |-> None, problem_mark |-> None, note |-> None]

Marked(context, context_mark, problem, problem_mark, note) ==
    [variant |-> "Marked", message |-> << >>, context |-> context,
     context_mark |-> context_mark, problem |-> problem,
     problem_mark |-> problem_mark, note |-> note]

NoSignal == Simple(<< >>)

\* The adapter: the class named by the call site, constructed from the
\* signal.  A Simple signal is one positional string; a Marked signal is
\* the five positional fields.
adapt(sh, signal, kind) ==
    IF kind \in MarkableKinds
    THEN IF signal.variant = "Simple"
         THEN MarkedErrorInit(kind, Some(signal.message), None, None, None, None)
         ELSE MarkedErrorInit(kind, signal.context, signal.context_mark,
                              signal.problem, signal.problem_mark, signal.note)
    ELSE IF kind = "ReaderError" THEN ReaderErrorInit(sh, << signal.message >>)
    ELSE FlatErrorInit(kind, signal.message)

\* Outcomes of a call: a returned value or a raised exception.
NoError == [cls |-> "", args |-> << >>, attrs |-> NoAttrs]
NoValue == [tag |-> "", docs |-> << >>]
Return(v) == [kind |-> "return", cls |-> "", value |-> v, error |-> NoError]
Raise(e) == [kind |-> "raise", cls |-> e.cls, value |-> NoValue, error |-> e]
Pending == [kind |-> "pending", cls |-> "", value |-> NoValue, error |-> NoError]

\* A built-in exception with a message.
Builtin(cls, message) == [cls |-> cls, args |-> << message >>, attrs |-> NoAttrs]

PyNone == [tag |-> "None", docs |-> << >>]
Scalar(d) == [tag |-> "scalar", docs |-> << d >>]
List(ds) == [tag |-> "list", docs |-> ds]

\* Documents of a text: separated by "\n---\n"; an empty text holds none.
DocSep == << 10, 45, 45, 45, 10 >>
IsPrefix(p, t) == Len(p) <= Len(t) /\ SubSeq(t, 1, Len(p)) = p

RECURSIVE Split(_, _)
Split(t, cur) ==
    IF t = << >> THEN << cur >>
    ELSE IF IsPrefix(DocSep, t)
    THEN << cur >> \o Split(SubSeq(t, Len(DocSep) + 1, Len(t)), << >>)
    ELSE Split(Tail(t), Append(cur, Head(t)))

Documents(t) == IF t = << >> THEN << >> ELSE Split(t, << >>)

\* A document with a '[' is an unclosed flow sequence.
Malformed(d) == \E i \in 1..Len(d) : d[i] = 91

\* loads(text): None for an empty text, a Composer error for more than one
\* document, the document otherwise.
loads(sh, t) ==
    LET ds == Documents(t) IN
    IF \E i \in 1..Len(ds) : Malformed(ds[i])
    THEN Raise(adapt(sh, Simple(<< "did not find expected node" >>), "ParserError"))
    ELSE IF Len(ds) = 0 THEN Return(PyNone)
    ELSE IF Len(ds) > 1
    THEN Raise(adapt(sh, Marked(Some(<< "expected a single document in the stream" >>),
                                Some([name |-> "f", line |-> 0, column |-> 0, index |-> 0]),
                                Some(<< "but found another document" >>),
                                Some([name |-> "f", line |-> 1, column |-> 2, index |-> 5]),
                                None),
                     "ComposerError"))
    ELSE Return(Scalar(ds[1]))

\* loads_all(text): None for an empty text (tests/test_load_all.py), the
\* list of documents otherwise.
loads_all(sh, t) ==
    LET ds == Documents(t) IN
    IF \E i \in 1..Len(ds) : Malformed(ds[i])
    THEN Raise(adapt(sh, Simple(<< "did not find expected node" >>), "ParserError"))
    ELSE IF Len(ds) = 0 THEN Return(PyNone)
    ELSE Return(List(ds))

\* dumps(obj): the text of a value, or a Representer error for an object
\* with no representation.
Unrepresentable == [tag |-> "object", docs |-> << >>]

dumps(sh, v) ==
    IF v.tag = "object"
    THEN [ok |-> FALSE, text |-> << >>,
          error |-> adapt(sh, Simple(<< "cannot represent an object" >>), "RepresenterError")]
    ELSE [ok |-> TRUE,
          text |-> (IF v.tag = "None" THEN << 110, 117, 108, 108 >> ELSE v.docs[1]) \o << 10 >>,
          error |-> NoError]

(***************************************************************************)
(* Sources and sinks.                                                      *)
(***************************************************************************)
\* What a caller can pass as fp / stream: files and in-memory streams
\* (io.IOBase), objects that only have a read method, an io.IOBase with no
\* read method, and plain str / bytes / other objects.
IsIOBase(k) == k \in {"TextIO", "BinaryIO", "BufferIO", "BareIOBase"}
HasRead(k) == k \in {"TextIO", "BinaryIO", "BufferIO", "DuckTextReader", "DuckBinaryReader"}
\* The type of what read() returns (or of the object itself).
DataType(k) ==
    IF k \in {"TextIO", "DuckTextReader", "str"} THEN "str"
    ELSE IF k \in {"BinaryIO", "DuckBinaryReader", "bytes"} THEN "bytes"
    ELSE IF k = "BufferIO" THEN "bytearray"
    ELSE "object"

Sources ==
    {[kind |-> k, data |-> d, value |-> NoValue] :
        k \in {"TextIO", "DuckTextReader", "str"}, d \in Texts}
    \cup {[kind |-> k, data |-> d, value |-> NoValue] :
        k \in {"BinaryIO", "BufferIO", "DuckBinaryReader", "bytes"}, d \in ByteStrings}
    \cup {[kind |-> k, data |-> << >>, value |-> NoValue] : k \in {"BareIOBase", "object"}}

SinkKinds == {"TextSink", "BinarySink"}
IsTextIOBase(k) == k = "TextSink"

Values == {PyNone, Unrepresentable} \cup {Scalar(t) : t \in SeqsUpTo({97, 233}, MaxLen) \ {<< >>}}

Readout(ok, t, e) == [ok |-> ok, text |-> t, error |-> e]

DecodeError(r) == Builtin("UnicodeDecodeError", << "invalid start byte", "position", r.position >>)

\* _read_file(fp): data = fp.read(), returned as is (str) or decoded
\* (bytes; anything else through bytes(data)).
read_file(fp) ==
    IF ~HasRead(fp.kind)
    THEN Readout(FALSE, << >>, Builtin("AttributeError", << "read" >>))
    ELSE IF DataType(fp.kind) = "str" THEN Readout(TRUE, fp.data, NoError)
    ELSE IF decode(fp.data).ok THEN Readout(TRUE, decode(fp.data).text, NoError)
    ELSE Readout(FALSE, << >>, DecodeError(decode(fp.data)))

\* isinstance(fp, io.IOBase)
IsFileLike(fp) == IsIOBase(fp.kind)

\* What dump hands to fp.write.
WrittenAlwaysText(fp, yaml) == [type |-> "str", data |-> yaml]

Written(fp, yaml) ==
    IF IsTextIOBase(fp.kind) THEN [type |-> "str", data |-> yaml]
    ELSE [type |-> "bytes", data |-> encode(yaml)]

\* The engine entry point load / load_all ends in.
Engine(sh, o, t) == IF o = "load" THEN loads(sh, t) ELSE loads_all(sh, t)

\* return loads(...): the engine's outcome is the call's outcome.
AfterEngineRetry(out) == IF out.kind = "return" THEN "Success" ELSE "Parsing"

AfterEngine(out) == IF out.kind = "return" THEN "Success" ELSE "Failed"

(***************************************************************************)
(* The calls.                                                              *)
(***************************************************************************)
LoadOps == {"load", "load_all"}
Terminal == {"Success", "Failed"}
NoArg == [kind |-> "", data |-> << >>, value |-> NoValue]

Init ==
    /\ shape \in Shapes
    /\ pc = "Idle"
    /\ op = ""
    /\ arg = NoArg
    /\ text = None
    /\ engineCalls = 0
    /\ outcome = Pending
    /\ sig = NoSignal
    /\ written = << >>

Enter(o, a) ==
    /\ pc = "Idle"
    /\ pc' = "Start"
    /\ op' = o
    /\ arg' = a
    /\ text' = None
    /\ engineCalls' = 0
    /\ outcome' = Pending
    /\ sig' = NoSignal
    /\ written' = << >>
    /\ UNCHANGED shape

\* load(fp) / load_all(fp) is called.
CallLoad == \E o \in LoadOps, fp \in Sources : Enter(o, fp)

\* load: the isinstance check.
load_check ==
    /\ pc = "Start" /\ op \in LoadOps
    /\ IF IsFileLike(arg)
       THEN pc' = "Reading" /\ UNCHANGED outcome
       ELSE /\ pc' = "Failed"
            /\ outcome' = Raise(Builtin("TypeError", << "fp must be a file-like object" >>))
    /\ UNCHANGED << shape, op, arg, text, engineCalls, sig, written >>

\* load: _read_file(fp).
load_read ==
    /\ pc = "Reading" /\ op \in LoadOps
    /\ LET r == read_file(arg) IN
         IF r.ok
         THEN pc' = "Parsing" /\ text' = Some(r.text) /\ UNCHANGED outcome
         ELSE pc' = "Failed" /\ outcome' = Raise(r.error) /\ UNCHANGED text
    /\ UNCHANGED << shape, op, arg, engineCalls, sig, written >>

\* load: loads(text) / loads_all(text).
load_parse ==
    /\ pc = "Parsing" /\ op \in LoadOps
    /\ LET out == Engine(shape, op, text[1]) IN
         /\ engineCalls' = engineCalls + 1
         /\ pc' = AfterEngine(out)
         /\ outcome' = out
    /\ UNCHANGED << shape, op, arg, text, sig, written >>

\* RSafeLoader(stream) is called.
CallRSafeLoader == \E st \in Sources : Enter("RSafeLoader", st)

\* RSafeLoader.__new__: stream.read(), or the stream itself on
\* AttributeError; bytes are decoded.
loader_read ==
    /\ pc = "Start" /\ op = "RSafeLoader"
    /\ IF DataType(arg.kind) = "str"
       THEN pc' = "Parsing" /\ text' = Some(arg.data) /\ UNCHANGED outcome
       ELSE IF DataType(arg.kind) = "bytes"
       THEN IF decode(arg.data).ok
            THEN pc' = "Parsing" /\ text' = Some(decode(arg.data).text) /\ UNCHANGED outcome
            ELSE /\ pc' = "Failed"
                 /\ outcome' = Raise(DecodeError(decode(arg.data)))
                 /\ UNCHANGED text
       ELSE pc' = "Parsing" /\ text' = None /\ UNCHANGED outcome
    /\ UNCHANGED << shape, op, arg, engineCalls, sig, written >>

\* RSafeLoader.__new__: super().__new__(cls, data); the engine takes a str.
loader_new ==
    /\ pc = "Parsing" /\ op = "RSafeLoader"
    /\ engineCalls' = engineCalls + 1
    /\ IF text = None
       THEN /\ pc' = "Failed"
            /\ outcome' = Raise(Builtin("TypeError", << "argument 'data': expected str" >>))
       ELSE pc' = "Success" /\ outcome' = Return([tag |-> "loader", docs |-> text])
    /\ UNCHANGED << shape, op, arg, text, sig, written >>

\* dump(fp, obj) is called.
CallDump ==
    \E k \in SinkKinds, v \in Values :
        Enter("dump", [kind |-> k, data |-> << >>, value |-> v])

\* dump: yaml = dumps(obj).
dump_emit ==
    /\ pc = "Start" /\ op = "dump"
    /\ LET r == dumps(shape, arg.value) IN
         /\ engineCalls' = engineCalls + 1
         /\ IF r.ok
            THEN pc' = "Writing" /\ text' = Some(r.text) /\ UNCHANGED outcome
            ELSE pc' = "Failed" /\ outcome' = Raise(r.error) /\ UNCHANGED text
    /\ UNCHANGED << shape, op, arg, sig, written >>

\* dump: fp.write(yaml) or fp.write(yaml.encode('utf8')).
dump_write ==
    /\ pc = "Writing" /\ op = "dump"
    /\ written' = Append(written, Written(arg, text[1]))
    /\ pc' = "Success"
    /\ outcome' = Return(PyNone)
    /\ UNCHANGED << shape, op, arg, text, engineCalls, sig >>

\* The engine raises a failure signal as an error of the kind the call
\* site names.
MessageAtoms == {<< "could not find expected ':'" >>, << >>}
OptStrings(a) == {None, Some(<< a >>)}
OptMarks == {None} \cup {Some(m) : m \in Marks}

MarkedSignals ==
    {Marked(c, cm, p, pm, n) :
        c \in OptStrings("while scanning a simple key"), cm \in OptMarks,
        p \in OptStrings("could not find expected ':'"), pm \in OptMarks,
        n \in OptStrings("a note")}

Adapt ==
    \E k \in Kinds :
      \E s \in {Simple(m) : m \in MessageAtoms}
               \cup (IF k \in MarkableKinds THEN MarkedSignals ELSE {}) :
        /\ pc = "Idle"
        /\ pc' = "Failed"
        /\ op' = "adapt"
        /\ arg' = [kind |-> k, data |-> << >>, value |-> NoValue]
        /\ sig' = s
        /\ outcome' = Raise(adapt(shape, s, k))
        /\ text' = None
        /\ engineCalls' = 0
        /\ written' = << >>
        /\ UNCHANGED shape

\* The call returns or raises; nothing is kept between calls.
Finish ==
    /\ pc \in Terminal
    /\ pc' = "Idle"
    /\ op' = ""
    /\ arg' = NoArg
    /\ text' = None
    /\ engineCalls' = 0
    /\ outcome' = Pending
    /\ sig' = NoSignal
    /\ written' = << >>
    /\ UNCHANGED shape

Step ==
    \/ load_check \/ load_read \/ load_parse
    \/ loader_read \/ loader_new
    \/ dump_emit \/ dump_write
    \/ Finish

Next == CallLoad \/ CallRSafeLoader \/ CallDump \/ Adapt \/ Step

Spec == Init /\ [][Next]_vars

\* A call is synchronous: once entered it runs to its return or raise.
FairSpec == Spec /\ WF_vars(Step)

(***************************************************************************)
(* Properties.                                                             *)
(***************************************************************************)
LoadEnded == op \in LoadOps /\ pc \in Terminal
Adapted == op = "adapt" /\ pc = "Failed"
MarkedFields == {"context", "context_mark", "problem", "problem_mark", "note"}
ReaderFields == {"name", "position", "character", "encoding", "reason"}

\* The content of a source decodes to a text.
Decodes(fp) == DataType(fp.kind) = "str" \/ decode(fp.data).ok
\* The text a source's content decodes to.
Drained(fp) == IF DataType(fp.kind) = "str" THEN fp.data ELSE decode(fp.data).text

\* C1: a load / load_all call raises the usage error (TypeError), without
\* invoking the engine, if and only if the source has no read capability;
\* every source with a read capability is accepted, drained and (when its
\* content decodes) handed to the engine.
C1_UsageErrorIffNoReadCapability ==
    LoadEnded =>
        IF HasRead(arg.kind)
        THEN /\ outcome.cls # "TypeError"
             /\ Decodes(arg) => engineCalls = 1 /\ text = Some(Drained(arg))
        ELSE outcome.cls = "TypeError" /\ engineCalls = 0

\* C2: bytes that are not valid UTF-8, read from a binary stream by load /
\* load_all or given to RSafeLoader, fail with a ReaderError (an
\* InvalidYamlError) that carries the offending byte position.
C2_InvalidUtf8IsReaderError ==
    /\ pc \in Terminal
    /\ \/ op \in LoadOps /\ IsIOBase(arg.kind) /\ DataType(arg.kind) \in {"bytes", "bytearray"}
       \/ op = "RSafeLoader" /\ DataType(arg.kind) = "bytes"
    /\ ~decode(arg.data).ok
    => /\ outcome.kind = "raise"
       /\ outcome.cls = "ReaderError"
       /\ issubclass(shape, outcome.cls, "InvalidYamlError")

\* C3 (as stated): the eight kinds are subtypes of InvalidYamlError in both
\* shapes, and every error a load or dump call raises, on any input, is an
\* InvalidYamlError.
C3_EveryRaisedErrorIsInvalidYaml ==
    /\ \A k \in Kinds : issubclass(shape, k, "InvalidYamlError")
    /\ op \in LoadOps \cup {"dump"} /\ pc = "Failed"
       => issubclass(shape, outcome.cls, "InvalidYamlError")

\* C3 (amended): the eight kinds are subtypes of InvalidYamlError in both
\* shapes, so every raised error of one of the eight kinds is an
\* InvalidYamlError.
C3_EveryKindIsInvalidYaml ==
    /\ \A k \in Kinds : issubclass(shape, k, "InvalidYamlError")
    /\ pc = "Failed" /\ outcome.cls \in Kinds
       => issubclass(shape, outcome.cls, "InvalidYamlError")

C3_Witness ==
    /\ shape = "bridged" /\ op = "load" /\ pc = "Failed"
    /\ outcome.cls = "ComposerError"

\* C4: the string representation of a markable error is its context then
\* its problem, joined by one newline (the one present when only one is, the
\* empty string when neither is); marks and note never appear, in either
\* shape.
C4_StrIsContextThenProblem ==
    Adapted /\ arg.kind \in MarkableKinds
    => str(shape, outcome.error)
         = Join(outcome.error.attrs.context \o outcome.error.attrs.problem)

\* C5: a Marked signal adapted into a markable kind gives an error whose
\* five fields equal the signal's, for every combination of present and
\* absent fields.
C5_MarkedFieldsVerbatim ==
    Adapted /\ arg.kind \in MarkableKinds /\ sig.variant = "Marked"
    => /\ outcome.error.attrs.context = sig.context
       /\ outcome.error.attrs.context_mark = sig.context_mark
       /\ outcome.error.attrs.problem = sig.problem
       /\ outcome.error.attrs.problem_mark = sig.problem_mark
       /\ outcome.error.attrs.note = sig.note

\* C6: a Simple signal adapted into a markable kind gives an error with
\* context None, problem the message, and both marks None.
C6_SimpleMapsToProblem ==
    Adapted /\ arg.kind \in MarkableKinds /\ sig.variant = "Simple"
    => /\ outcome.error.cls = arg.kind
       /\ outcome.error.attrs.context = None
       /\ outcome.error.attrs.problem = Some(sig.message)
       /\ outcome.error.attrs.context_mark = None
       /\ outcome.error.attrs.problem_mark = None

C6_Witness ==
    /\ Adapted /\ arg.kind = "ScannerError"
    /\ sig = Simple(<< "could not find expected ':'" >>)

\* C7: a Simple signal adapted into a ReaderError gives, in both shapes, an
\* error with reason the message and name, position, character and encoding
\* present and None, and without the markable fields.
C7_SimpleReaderFields ==
    Adapted /\ arg.kind = "ReaderError" /\ sig.variant = "Simple"
    => /\ DOMAIN outcome.error.attrs = ReaderFields
       /\ outcome.error.attrs.reason = Some(sig.message)
       /\ outcome.error.attrs.name = None
       /\ outcome.error.attrs.position = None
       /\ outcome.error.attrs.character = None
       /\ outcome.error.attrs.encoding = None
       /\ DOMAIN outcome.error.attrs \cap MarkedFields = {}

\* C8: for every stream whose content decodes to a text t, load(stream) has
\* the outcome of loads(t) and load_all(stream) that of loads_all(t).
C8_StreamLoadEqualsTextLoad ==
    LoadEnded /\ HasRead(arg.kind) /\ Decodes(arg)
    => outcome = Engine(shape, op, Drained(arg))

LoadTransitions ==
    {<< "Idle", "Start" >>, << "Start", "Reading" >>, << "Start", "Failed" >>,
     << "Reading", "Parsing" >>, << "Reading", "Failed" >>,
     << "Parsing", "Success" >>, << "Parsing", "Failed" >>}

C10_LoadStateMachine ==
    /\ [][op' \in LoadOps => << pc, pc' >> \in LoadTransitions]_vars
    /\ [][op' \in LoadOps /\ engineCalls' # engineCalls =>
            /\ pc = "Parsing" /\ pc' \in Terminal
            /\ engineCalls = 0 /\ engineCalls' = 1
            /\ text = Some(Drained(arg))
            /\ outcome' = Engine(shape, op, Drained(arg))]_vars
    /\ [](op \in LoadOps =>
            /\ engineCalls <= 1
            /\ pc = "Parsing" => text = Some(Drained(arg)) /\ engineCalls = 0
            /\ pc = "Success" => engineCalls = 1
            /\ pc \in Terminal => (engineCalls = 1 <=> text # None)
            /\ pc = "Failed" /\ engineCalls = 0
               => outcome.cls \in {"TypeError", "AttributeError", "UnicodeDecodeError"})
    /\ [](op \in LoadOps /\ pc = "Start" => <>(pc \in Terminal))

C10_Witness == op = "load" /\ pc = "Failed" /\ engineCalls = 1

====
